---- MODULE Spec2Model ----
(***************************************************************************)
(* A model of src/wasm/fft.c: the radix-2 engine cooley_tukey_fft, its     *)
(* inverse cooley_tukey_ifft, the Bluestein wrapper bluestein_fft, the     *)
(* exported wasm_fft and the allocation helper alloc_floats.               *)
(*                                                                         *)
(* Numbers.  C int is a W-bit two's complement integer and size_t a W-bit  *)
(* unsigned one; the operations that can leave the range wrap.  A float is *)
(* an element of the prime field F_P and the angle  num*pi/den  is the     *)
(* pair <<num, den>>.  P - 1 is a multiple of 2*den for every angle the    *)
(* model forms, so F_P holds exact values of cos and sin at those angles   *)
(* and every assignment of the source is carried out with the field's      *)
(* + - * in the place of the float operations.                             *)
(***************************************************************************)
EXTENDS Integers, Sequences, FiniteSets, TLC

\* ------------------------------------------------------------- bounds
MaxN == 4
MaxCalls == 2
MaxFails == 2
W == 8

\* ---------------------------------------------------------- arithmetic
SizeofFloat == 4

TwoW == 2 ^ W
IntMax == (TwoW \div 2) - 1

\* int: the value of a W-bit two's complement result
WrapS(x) == LET r == x % TwoW IN IF r >= TwoW \div 2 THEN r - TwoW ELSE r

\* size_t: the value of a W-bit unsigned result
WrapU(x) == x % TwoW

\* int division truncates toward zero
CDiv(a, b) == IF a >= 0 THEN a \div b ELSE 0 - ((0 - a) \div b)

\* a >> 1 on an int (arithmetic shift)
Shr1(a) == a \div 2

RECURSIVE BitAnd(_, _)
BitAnd(a, b) ==
    IF a = 0 \/ b = 0 THEN 0
    ELSE (a % 2) * (b % 2) + 2 * BitAnd(a \div 2, b \div 2)

RECURSIVE BitXor(_, _)
BitXor(a, b) ==
    IF a = 0 THEN b
    ELSE IF b = 0 THEN a
    ELSE ((a + b) % 2) + 2 * BitXor(a \div 2, b \div 2)

\* ------------------------------------------------------- float values
P == 241
G == 7

FAdd(a, b) == (a + b) % P
FSub(a, b) == (a - b) % P
FMul(a, b) == (a * b) % P
FNeg(a) == (0 - a) % P
FInv(a) == CHOOSE x \in 1..(P - 1) : (x * a) % P = 1

RECURSIVE FPow(_, _)
FPow(b, e) ==
    IF e = 0 THEN 1
    ELSE IF e % 2 = 0 THEN FPow(FMul(b, b), e \div 2)
    ELSE FMul(b, FPow(FMul(b, b), e \div 2))

\* the unit i, and exp(i * num * pi / den)
FI == FPow(G, (P - 1) \div 4)
Expi(th) == FPow(G, ((th[1] * (P - 1)) \div (2 * th[2])) % (P - 1))

js_cos(th) == FMul(FAdd(Expi(th), FInv(Expi(th))), FInv(2))
js_sin(th) == FMul(FSub(Expi(th), FInv(Expi(th))), FInv(FMul(2, FI)))

cosf_approx(x) == js_cos(x)
sinf_approx(x) == js_sin(x)

\* ------------------------------------------------------------- state
VARIABLES
    pc,            \* position of the single thread of control
    n, m, pow2, k, \* bluestein_fft: its argument and locals (k: its loop index)
    ii,            \* cooley_tukey_ifft: loop index
    ctReal, ctImag, ctN, ret,   \* cooley_tukey_fft: arguments, return position
    i, j, bit, len, wr, wi, ur, ui,  \* cooley_tukey_fft: locals
    mem,           \* the float arrays: caller's, auxiliary, and address 0
    null,          \* auxiliary pointers that hold NULL
    requested,     \* auxiliary pointers assigned from alloc_floats in this call
    outstanding,   \* buffers obtained from malloc and not passed to free
    bytes,         \* the argument of the last malloc
    fails, calls,  \* allocation failures in this call; calls of wasm_fft
    x0,            \* the caller's arrays as they were at the call
    callerWrites,  \* writes to the caller's arrays in this call
    runs,          \* runs of cooley_tukey_fft in this call
    trigCalls,     \* js_cos / js_sin calls in this run of cooley_tukey_fft
    trigAt,        \* position of the thread at the last js_cos / js_sin call
    lens,          \* the stage lengths of this run, in order
    touch,         \* per index: butterflies of the current stage that used it
    swaps,         \* the swaps of this run's first phase, in order
    ctIn,          \* the two arrays as they were at the start of this run
    bDirect, bMirror  \* indices of b written as b[k] and as b[pow2 - k]

vars == << pc, n, m, pow2, k, ii, ctReal, ctImag, ctN, ret, i, j, bit, len,
           wr, wi, ur, ui, mem, null, requested, outstanding, bytes, fails,
           calls, x0, callerWrites, runs, trigCalls, trigAt, lens, touch,
           swaps, ctIn, bDirect, bMirror >>

blueVars == << n, m, pow2, k >>
ctVars == << ctReal, ctImag, ctN, ret, i, j, bit, len, wr, wi, ur, ui >>
allocVars == << null, requested, outstanding, bytes, fails >>
ctGhost == << trigCalls, trigAt, lens, touch, swaps, ctIn >>
bGhost == << bDirect, bMirror >>

Caller == {"real", "imag"}
Aux == {"a_real", "a_imag", "b_real", "b_imag", "c_real", "c_imag"}
Names == Caller \cup Aux \cup {"zero"}

\* the array a pointer designates: a NULL pointer designates address 0
Store(name) == IF name \in null THEN "zero" ELSE name
Rd(mm, name, idx) == mm[Store(name)][idx + 1]
Wr(mm, name, idx, v) == [mm EXCEPT ![Store(name)][idx + 1] = v]

\* memory that was never written holds an arbitrary value
Garbage == 99
Fresh(count) == [x \in 1..count |-> Garbage]

\* the signals the host places in the caller's arrays
Impulse == [x \in 1..MaxN |-> IF x = 1 THEN 1 ELSE 0]
Ramp == [x \in 1..MaxN |-> x]
Zeros == [x \in 1..MaxN |-> 0]
Inputs == { <<Impulse, Zeros>>, <<Ramp, Impulse>> }

\* ---------------------------------------------------------------- Init
Init ==
    /\ pc = "idle"
    /\ n = 0 /\ m = 0 /\ pow2 = 0 /\ k = 0 /\ ii = 0
    /\ ctReal = "real" /\ ctImag = "imag" /\ ctN = 0 /\ ret = "idle"
    /\ i = 0 /\ j = 0 /\ bit = 0 /\ len = 0
    /\ wr = 0 /\ wi = 0 /\ ur = 0 /\ ui = 0
    /\ mem = [name \in Names |-> IF name \in Caller THEN Zeros ELSE << >>]
    /\ null = {} /\ requested = {} /\ outstanding = 0 /\ bytes = 0
    /\ fails = 0 /\ calls = 0
    /\ x0 = << Zeros, Zeros >>
    /\ callerWrites = 0 /\ runs = 0
    /\ trigCalls = 0 /\ trigAt = "idle" /\ lens = << >>
    /\ touch = << >> /\ swaps = << >> /\ ctIn = << << >>, << >> >>
    /\ bDirect = {} /\ bMirror = {}

\* the frames of a new call: locals hold nothing from the call before
NewFrames ==
    /\ m' = 0 /\ pow2' = 0 /\ k' = 0 /\ ii' = 0
    /\ ctReal' = "real" /\ ctImag' = "imag" /\ ctN' = 0 /\ ret' = "idle"
    /\ i' = 0 /\ j' = 0 /\ bit' = 0 /\ len' = 0
    /\ wr' = 0 /\ wi' = 0 /\ ur' = 0 /\ ui' = 0
    /\ null' = {} /\ requested' = {} /\ fails' = 0
    /\ callerWrites' = 0 /\ runs' = 0
    /\ trigCalls' = 0 /\ trigAt' = "idle" /\ lens' = << >>
    /\ touch' = << >> /\ swaps' = << >> /\ ctIn' = << << >>, << >> >>
    /\ bDirect' = {} /\ bMirror' = {}

\* variant: a power-of-two size goes straight to the engine
wasm_fft_dispatch(size, input) ==
    /\ pc \in {"idle", "trapped"}
    /\ calls < MaxCalls
    /\ calls' = calls + 1
    /\ n' = size
    /\ mem' = [name \in Names |->
                 IF name = "real" THEN input[1]
                 ELSE IF name = "imag" THEN input[2] ELSE << >>]
    /\ x0' = input
    /\ m' = 0 /\ pow2' = 0 /\ k' = 0 /\ ii' = 0
    /\ ctReal' = "real" /\ ctImag' = "imag" /\ ret' = "idle"
    /\ ctN' = IF size \in {1, 2, 4, 8, 16} THEN size ELSE 0
    /\ i' = IF size \in {1, 2, 4, 8, 16} THEN 1 ELSE 0
    /\ j' = 0 /\ bit' = 0 /\ len' = 0
    /\ wr' = 0 /\ wi' = 0 /\ ur' = 0 /\ ui' = 0
    /\ null' = {} /\ requested' = {} /\ fails' = 0
    /\ callerWrites' = 0
    /\ runs' = IF size \in {1, 2, 4, 8, 16} THEN 1 ELSE 0
    /\ trigCalls' = 0 /\ trigAt' = "idle" /\ lens' = << >>
    /\ touch' = << >> /\ swaps' = << >>
    /\ ctIn' = IF size \in {1, 2, 4, 8, 16}
               THEN << input[1], input[2] >> ELSE << << >>, << >> >>
    /\ bDirect' = {} /\ bMirror' = {}
    /\ pc' = IF size \in {1, 2, 4, 8, 16} THEN "ct_rev" ELSE "bluestein"
    /\ UNCHANGED << outstanding, bytes >>

\* -------------------------------------------------------------- wasm_fft
\* The host has placed a signal at real_offset and imag_offset and calls
\* wasm_fft, which hands the two pointers and size to bluestein_fft.
wasm_fft(size, input) ==
    /\ pc \in {"idle", "trapped"}
    /\ calls < MaxCalls
    /\ calls' = calls + 1
    /\ n' = size
    /\ mem' = [name \in Names |->
                 IF name = "real" THEN input[1]
                 ELSE IF name = "imag" THEN input[2] ELSE << >>]
    /\ x0' = input
    /\ NewFrames
    /\ pc' = "bluestein"
    /\ UNCHANGED << outstanding, bytes >>

\* ------------------------------------------------------- bluestein_fft
\* variants of the target: 2n for 2n-1, and n (no room for the mirror)
PadTargetEven(nn) == WrapS(2 * nn)
PadTargetShort(nn) == nn

\* int m = 2 * n - 1
PadTarget(nn) == WrapS(WrapS(2 * nn) - 1)

bluestein_entry ==
    /\ pc = "bluestein"
    /\ m' = PadTarget(n)
    /\ pow2' = 1
    /\ pc' = "pad"
    /\ UNCHANGED << n, k, ii, ctVars, mem, allocVars, calls, x0,
                    callerWrites, runs, ctGhost, bGhost >>

PadStep ==
    /\ pc = "pad"
    /\ pow2 < m
    /\ pow2' = WrapS(pow2 * 2)
    /\ UNCHANGED << pc, n, m, k, ii, ctVars, mem, allocVars, calls, x0,
                    callerWrites, runs, ctGhost, bGhost >>

PadExit ==
    /\ pc = "pad"
    /\ ~(pow2 < m)
    /\ pc' = "alloc_a_real"
    /\ UNCHANGED << blueVars, ii, ctVars, mem, allocVars, calls, x0,
                    callerWrites, runs, ctGhost, bGhost >>

\* ---------------------------------------------------------- alloc_floats
AllocPc(name) == "alloc_" \o name
AfterAlloc(name) ==
    CASE name = "a_real" -> "alloc_a_imag"
      [] name = "a_imag" -> "alloc_b_real"
      [] name = "b_real" -> "alloc_b_imag"
      [] name = "b_imag" -> "zero"
      [] name = "c_real" -> "alloc_c_imag"
      [] name = "c_imag" -> "mul"

\* the byte count alloc_floats hands to malloc
AllocBytes(count) == WrapU(WrapU(count) * SizeofFloat)

\* malloc returns a buffer of the requested size, its content arbitrary
alloc_floats_ok(name) ==
    /\ pc = AllocPc(name)
    /\ bytes' = AllocBytes(pow2)
    /\ mem' = [mem EXCEPT ![name] = Fresh(bytes' \div SizeofFloat)]
    /\ outstanding' = outstanding + 1
    /\ requested' = requested \cup {name}
    /\ k' = 0
    /\ pc' = AfterAlloc(name)
    /\ UNCHANGED << n, m, pow2, ii, ctVars, null, fails, calls, x0,
                    callerWrites, runs, ctGhost, bGhost >>

\* malloc returns NULL; alloc_floats returns it and the caller stores it
alloc_floats_null(name) ==
    /\ pc = AllocPc(name)
    /\ fails < MaxFails
    /\ fails' = fails + 1
    /\ bytes' = AllocBytes(pow2)
    /\ null' = null \cup {name}
    /\ requested' = requested \cup {name}
    /\ mem' = IF mem["zero"] = << >>
              THEN [mem EXCEPT !["zero"] = Fresh(pow2)] ELSE mem
    /\ k' = 0
    /\ pc' = AfterAlloc(name)
    /\ UNCHANGED << n, m, pow2, ii, ctVars, outstanding, calls, x0,
                    callerWrites, runs, ctGhost, bGhost >>

\* A load or store through a NULL pointer is undefined: the build either
\* traps at the first such access or uses the memory at address 0.
Trap ==
    /\ \/ pc = "zero" /\ k = 0
          /\ null \cap {"a_real", "a_imag", "b_real", "b_imag"} # {}
       \/ pc = "mul" /\ k = 0 /\ null \cap {"c_real", "c_imag"} # {}
    /\ pc' = "trapped"
    /\ UNCHANGED << blueVars, ii, ctVars, mem, allocVars, calls, x0,
                    callerWrites, runs, ctGhost, bGhost >>

\* ------------------------------------------- bluestein_fft: fill loops
ZeroStep ==
    /\ pc = "zero"
    /\ k < pow2
    /\ mem' = LET m1 == Wr(mem, "a_real", k, 0)
                  m2 == Wr(m1, "a_imag", k, 0)
                  m3 == Wr(m2, "b_real", k, 0)
              IN  Wr(m3, "b_imag", k, 0)
    /\ k' = k + 1
    /\ UNCHANGED << pc, n, m, pow2, ii, ctVars, allocVars, calls, x0,
                    callerWrites, runs, ctGhost, bGhost >>

ZeroExit ==
    /\ pc = "zero"
    /\ ~(k < pow2)
    /\ k' = 0
    /\ pc' = "fill_a"
    /\ UNCHANGED << n, m, pow2, ii, ctVars, mem, allocVars, calls, x0,
                    callerWrites, runs, ctGhost, bGhost >>

\* theta = -3.14159265359f * k * k / n  and its opposite
ChirpDown(kk, nn) == << 0 - (kk * kk), nn >>
ChirpUp(kk, nn) == << kk * kk, nn >>

FillAStep ==
    /\ pc = "fill_a"
    /\ k < n
    /\ mem' = LET cwr == cosf_approx(ChirpDown(k, n))
                  cwi == sinf_approx(ChirpDown(k, n))
                  m1 == Wr(mem, "a_real", k,
                           FSub(FMul(Rd(mem, "real", k), cwr),
                                FMul(Rd(mem, "imag", k), cwi)))
              IN  Wr(m1, "a_imag", k,
                     FAdd(FMul(Rd(m1, "real", k), cwi),
                          FMul(Rd(m1, "imag", k), cwr)))
    /\ k' = k + 1
    /\ UNCHANGED << pc, n, m, pow2, ii, ctVars, allocVars, calls, x0,
                    callerWrites, runs, ctGhost, bGhost >>

FillAExit ==
    /\ pc = "fill_a"
    /\ ~(k < n)
    /\ k' = 0
    /\ pc' = "fill_b"
    /\ UNCHANGED << n, m, pow2, ii, ctVars, mem, allocVars, calls, x0,
                    callerWrites, runs, ctGhost, bGhost >>

\* the index of the mirror entry of b[kk]
MirrorIndex(mm, kk) == mm - kk

FillBStep ==
    /\ pc = "fill_b"
    /\ k < n
    /\ LET cwr == cosf_approx(ChirpUp(k, n))
           cwi == sinf_approx(ChirpUp(k, n))
           m1 == Wr(mem, "b_real", k, cwr)
           m2 == Wr(m1, "b_imag", k, cwi)
           m3 == Wr(m2, "b_real", MirrorIndex(pow2, k), cwr)
       IN  IF k > 0 /\ k < n
           THEN /\ mem' = Wr(m3, "b_imag", MirrorIndex(pow2, k), cwi)
                /\ bMirror' = bMirror \cup {MirrorIndex(pow2, k)}
           ELSE /\ mem' = m2
                /\ bMirror' = bMirror
    /\ bDirect' = bDirect \cup {k}
    /\ k' = k + 1
    /\ UNCHANGED << pc, n, m, pow2, ii, ctVars, allocVars, calls, x0,
                    callerWrites, runs, ctGhost >>

FillBExit ==
    /\ pc = "fill_b"
    /\ ~(k < n)
    /\ k' = 0
    /\ pc' = "fft_a"
    /\ UNCHANGED << n, m, pow2, ii, ctVars, mem, allocVars, calls, x0,
                    callerWrites, runs, ctGhost, bGhost >>

\* ---------------------------------------------------- cooley_tukey_fft
\* The call binds the parameters and runs the initialiser of the first
\* loop (i = 1, j = 0).
call_cooley_tukey_fft(at, re, im, count, back) ==
    /\ pc = at
    /\ ctReal' = re /\ ctImag' = im /\ ctN' = count /\ ret' = back
    /\ i' = 1 /\ j' = 0
    /\ runs' = runs + 1
    /\ trigCalls' = 0 /\ lens' = << >> /\ swaps' = << >> /\ touch' = << >>
    /\ ctIn' = << mem[Store(re)], mem[Store(im)] >>
    /\ pc' = "ct_rev"
    /\ UNCHANGED << blueVars, ii, bit, len, wr, wi, ur, ui, mem, allocVars,
                    calls, x0, callerWrites, trigAt, bGhost >>

fft_a == call_cooley_tukey_fft("fft_a", "a_real", "a_imag", pow2, "fft_b")
fft_b == call_cooley_tukey_fft("fft_b", "b_real", "b_imag", pow2, "alloc_c_real")

RevOuter ==
    /\ pc = "ct_rev"
    /\ i < ctN
    /\ bit' = Shr1(ctN)
    /\ pc' = "ct_bit"
    /\ UNCHANGED << blueVars, ii, ctReal, ctImag, ctN, ret, i, j, len, wr,
                    wi, ur, ui, mem, allocVars, calls, x0, callerWrites,
                    runs, ctGhost, bGhost >>

BitClear ==
    /\ pc = "ct_bit"
    /\ BitAnd(j, bit) # 0
    /\ j' = BitXor(j, bit)
    /\ bit' = Shr1(bit)
    /\ UNCHANGED << pc, blueVars, ii, ctReal, ctImag, ctN, ret, i, len, wr,
                    wi, ur, ui, mem, allocVars, calls, x0, callerWrites,
                    runs, ctGhost, bGhost >>

\* temp = p[a]; p[a] = p[b]; p[b] = temp
Swap(mm, name, a, b) ==
    LET temp == Rd(mm, name, a)
        m1 == Wr(mm, name, a, Rd(mm, name, b))
    IN  Wr(m1, name, b, temp)

\* variant: swap whenever the two indices differ
SwapCondAny(a, b) == a # b
SwapCond(a, b) == a < b

BitSet ==
    /\ pc = "ct_bit"
    /\ BitAnd(j, bit) = 0
    /\ j' = BitXor(j, bit)
    /\ IF SwapCond(i, j')
       THEN /\ mem' = Swap(Swap(mem, ctReal, i, j'), ctImag, i, j')
            /\ swaps' = Append(swaps, << i, j' >>)
       ELSE UNCHANGED << mem, swaps >>
    /\ i' = i + 1
    /\ pc' = "ct_rev"
    /\ UNCHANGED << blueVars, ii, ctReal, ctImag, ctN, ret, bit, len, wr,
                    wi, ur, ui, allocVars, calls, x0, callerWrites, runs,
                    trigCalls, trigAt, lens, touch, ctIn, bGhost >>

RevDone ==
    /\ pc = "ct_rev"
    /\ ~(i < ctN)
    /\ len' = 2
    /\ pc' = "ct_stage"
    /\ UNCHANGED << blueVars, ii, ctReal, ctImag, ctN, ret, i, j, bit, wr,
                    wi, ur, ui, mem, allocVars, calls, x0, callerWrites,
                    runs, ctGhost, bGhost >>

\* float angle = -2.0f * 3.14159265359f / len
StageAngle(ll) == << 0 - 2, ll >>

\* len *= 2
NextLen(ll) == WrapS(ll * 2)

StageEnter ==
    /\ pc = "ct_stage"
    /\ len <= ctN
    /\ wr' = cosf_approx(StageAngle(len))
    /\ wi' = sinf_approx(StageAngle(len))
    /\ trigCalls' = trigCalls + 2
    /\ trigAt' = pc
    /\ lens' = Append(lens, len)
    /\ touch' = [x \in 0..(ctN - 1) |-> 0]
    /\ i' = 0
    /\ pc' = "ct_block"
    /\ UNCHANGED << blueVars, ii, ctReal, ctImag, ctN, ret, j, bit, len, ur,
                    ui, mem, allocVars, calls, x0, callerWrites, runs,
                    swaps, ctIn, bGhost >>

\* variant: the stage base recomputed at the head of every block
BlockEnterTrig ==
    /\ pc = "ct_block"
    /\ i < ctN
    /\ wr' = cosf_approx(StageAngle(len))
    /\ wi' = sinf_approx(StageAngle(len))
    /\ trigCalls' = trigCalls + 2
    /\ trigAt' = pc
    /\ ur' = 1 /\ ui' = 0
    /\ j' = 0
    /\ pc' = "ct_bfly"
    /\ UNCHANGED << blueVars, ii, ctReal, ctImag, ctN, ret, i, bit, len,
                    mem, allocVars, calls, x0, callerWrites, runs,
                    lens, touch, swaps, ctIn, bGhost >>

BlockEnter ==
    /\ pc = "ct_block"
    /\ i < ctN
    /\ ur' = 1 /\ ui' = 0
    /\ j' = 0
    /\ pc' = "ct_bfly"
    /\ UNCHANGED << blueVars, ii, ctReal, ctImag, ctN, ret, i, bit, len, wr,
                    wi, mem, allocVars, calls, x0, callerWrites, runs,
                    ctGhost, bGhost >>

\* variant: the partner a whole block length away
PairVStride(ib, jb, ll) == ib + jb + ll

\* the pair of indices one butterfly combines
PairU(ib, jb) == ib + jb
PairV(ib, jb, ll) == ib + jb + CDiv(ll, 2)

Butterfly ==
    /\ pc = "ct_bfly"
    /\ j < CDiv(len, 2)
    /\ LET u == PairU(i, j)
           v == PairV(i, j, len)
           tr == FSub(FMul(Rd(mem, ctReal, v), ur), FMul(Rd(mem, ctImag, v), ui))
           ti == FAdd(FMul(Rd(mem, ctReal, v), ui), FMul(Rd(mem, ctImag, v), ur))
           m1 == Wr(mem, ctReal, v, FSub(Rd(mem, ctReal, u), tr))
           m2 == Wr(m1, ctImag, v, FSub(Rd(m1, ctImag, u), ti))
           m3 == Wr(m2, ctReal, u, FAdd(Rd(m2, ctReal, u), tr))
           m4 == Wr(m3, ctImag, u, FAdd(Rd(m3, ctImag, u), ti))
       IN  /\ mem' = m4
           /\ touch' = [x \in DOMAIN touch |->
                          touch[x] + (IF x = u THEN 1 ELSE 0)
                                   + (IF x = v THEN 1 ELSE 0)]
    /\ ur' = FSub(FMul(ur, wr), FMul(ui, wi))
    /\ ui' = FAdd(FMul(ur, wi), FMul(ui, wr))
    /\ j' = j + 1
    /\ UNCHANGED << pc, blueVars, ii, ctReal, ctImag, ctN, ret, i, bit, len,
                    wr, wi, allocVars, calls, x0, callerWrites, runs,
                    trigCalls, trigAt, lens, swaps, ctIn, bGhost >>

ButterflyExit ==
    /\ pc = "ct_bfly"
    /\ ~(j < CDiv(len, 2))
    /\ i' = i + len
    /\ pc' = "ct_block"
    /\ UNCHANGED << blueVars, ii, ctReal, ctImag, ctN, ret, j, bit, len, wr,
                    wi, ur, ui, mem, allocVars, calls, x0, callerWrites,
                    runs, ctGhost, bGhost >>

BlockExit ==
    /\ pc = "ct_block"
    /\ ~(i < ctN)
    /\ len' = NextLen(len)
    /\ pc' = "ct_stage"
    /\ UNCHANGED << blueVars, ii, ctReal, ctImag, ctN, ret, i, j, bit, wr,
                    wi, ur, ui, mem, allocVars, calls, x0, callerWrites,
                    runs, ctGhost, bGhost >>

\* the stage loop ends and cooley_tukey_fft returns to its caller
StageExit ==
    /\ pc = "ct_stage"
    /\ ~(len <= ctN)
    /\ pc' = ret
    /\ UNCHANGED << blueVars, ii, ctVars, mem, allocVars, calls, x0,
                    callerWrites, runs, ctGhost, bGhost >>

\* ------------------------------------- bluestein_fft: c = a * b, c_real
MulStep ==
    /\ pc = "mul"
    /\ k < pow2
    /\ mem' = LET m1 == Wr(mem, "c_real", k,
                           FSub(FMul(Rd(mem, "a_real", k), Rd(mem, "b_real", k)),
                                FMul(Rd(mem, "a_imag", k), Rd(mem, "b_imag", k))))
              IN  Wr(m1, "c_imag", k,
                     FAdd(FMul(Rd(m1, "a_real", k), Rd(m1, "b_imag", k)),
                          FMul(Rd(m1, "a_imag", k), Rd(m1, "b_real", k))))
    /\ k' = k + 1
    /\ UNCHANGED << pc, n, m, pow2, ii, ctVars, allocVars, calls, x0,
                    callerWrites, runs, ctGhost, bGhost >>

MulExit ==
    /\ pc = "mul"
    /\ ~(k < pow2)
    /\ k' = 0
    /\ pc' = "ifft"
    /\ UNCHANGED << n, m, pow2, ii, ctVars, mem, allocVars, calls, x0,
                    callerWrites, runs, ctGhost, bGhost >>

\* --------------------------------------------------- cooley_tukey_ifft
\* The one call: cooley_tukey_ifft(c_real, c_imag, pow2).  Its parameters
\* are the ones it passes on to cooley_tukey_fft, so they share ctReal,
\* ctImag and ctN.
cooley_tukey_ifft ==
    /\ pc = "ifft"
    /\ ctReal' = "c_real" /\ ctImag' = "c_imag" /\ ctN' = pow2
    /\ ii' = 0
    /\ pc' = "ifft_conj"
    /\ UNCHANGED << blueVars, ret, i, j, bit, len, wr, wi, ur, ui, mem,
                    allocVars, calls, x0, callerWrites, runs, ctGhost,
                    bGhost >>

IfftConjStep ==
    /\ pc = "ifft_conj"
    /\ ii < ctN
    /\ mem' = Wr(mem, ctImag, ii, FNeg(Rd(mem, ctImag, ii)))
    /\ ii' = ii + 1
    /\ UNCHANGED << pc, blueVars, ctVars, allocVars, calls, x0,
                    callerWrites, runs, ctGhost, bGhost >>

IfftConjExit ==
    /\ pc = "ifft_conj"
    /\ ~(ii < ctN)
    /\ pc' = "ifft_fft"
    /\ UNCHANGED << blueVars, ii, ctVars, mem, allocVars, calls, x0,
                    callerWrites, runs, ctGhost, bGhost >>

ifft_fft == call_cooley_tukey_fft("ifft_fft", ctReal, ctImag, ctN, "ifft_scale0")

\* float scale = 1.0f / n
Scale(count) == FInv(count % P)

IfftScaleInit ==
    /\ pc = "ifft_scale0"
    /\ ii' = 0
    /\ pc' = "ifft_scale"
    /\ UNCHANGED << blueVars, ctVars, mem, allocVars, calls, x0,
                    callerWrites, runs, ctGhost, bGhost >>

IfftScaleStep ==
    /\ pc = "ifft_scale"
    /\ ii < ctN
    /\ mem' = LET m1 == Wr(mem, ctReal, ii,
                           FMul(Rd(mem, ctReal, ii), Scale(ctN)))
              IN  Wr(m1, ctImag, ii,
                     FMul(Rd(m1, ctImag, ii), FNeg(Scale(ctN))))
    /\ ii' = ii + 1
    /\ UNCHANGED << pc, blueVars, ctVars, allocVars, calls, x0,
                    callerWrites, runs, ctGhost, bGhost >>

\* cooley_tukey_ifft returns to bluestein_fft
IfftScaleExit ==
    /\ pc = "ifft_scale"
    /\ ~(ii < ctN)
    /\ k' = 0
    /\ pc' = "extract"
    /\ UNCHANGED << n, m, pow2, ii, ctVars, mem, allocVars, calls, x0,
                    callerWrites, runs, ctGhost, bGhost >>

\* -------------------------------------------- bluestein_fft: the result
ExtractStep ==
    /\ pc = "extract"
    /\ k < n
    /\ mem' = LET cwr == cosf_approx(ChirpDown(k, n))
                  cwi == sinf_approx(ChirpDown(k, n))
                  m1 == Wr(mem, "real", k,
                           FSub(FMul(Rd(mem, "c_real", k), cwr),
                                FMul(Rd(mem, "c_imag", k), cwi)))
              IN  Wr(m1, "imag", k,
                     FAdd(FMul(Rd(m1, "c_real", k), cwi),
                          FMul(Rd(m1, "c_imag", k), cwr)))
    /\ callerWrites' = callerWrites + 2
    /\ k' = k + 1
    /\ UNCHANGED << pc, n, m, pow2, ii, ctVars, allocVars, calls, x0,
                    runs, ctGhost, bGhost >>

\* bluestein_fft returns, and wasm_fft after it: nothing is passed to free
ExtractExit ==
    /\ pc = "extract"
    /\ ~(k < n)
    /\ pc' = "idle"
    /\ UNCHANGED << blueVars, ii, ctVars, mem, allocVars, calls, x0,
                    callerWrites, runs, ctGhost, bGhost >>

\* ------------------------------------------------------- specification
Sizes == (0 - 1)..MaxN

Call == \E size \in Sizes, input \in Inputs : wasm_fft(size, input)
AllocOk == \E name \in Aux : alloc_floats_ok(name)
AllocNull == \E name \in Aux : alloc_floats_null(name)

Next ==
    \/ Call \/ bluestein_entry \/ PadStep \/ PadExit
    \/ AllocOk \/ AllocNull \/ Trap
    \/ ZeroStep \/ ZeroExit \/ FillAStep \/ FillAExit
    \/ FillBStep \/ FillBExit \/ fft_a \/ fft_b
    \/ RevOuter \/ BitClear \/ BitSet \/ RevDone
    \/ StageEnter \/ BlockEnter \/ Butterfly \/ ButterflyExit
    \/ BlockExit \/ StageExit
    \/ MulStep \/ MulExit
    \/ cooley_tukey_ifft \/ IfftConjStep \/ IfftConjExit \/ ifft_fft
    \/ IfftScaleInit \/ IfftScaleStep \/ IfftScaleExit
    \/ ExtractStep \/ ExtractExit

Spec == Init /\ [][Next]_vars

\* The integer part of a call at every length an int can hold: the call,
\* the padded-length loop and the four allocations that follow it.
SizesW == 1..IntMax
CallW == \E size \in SizesW : wasm_fft(size, << Impulse, Zeros >>)
AllocOkW == \E name \in {"a_real", "a_imag", "b_real", "b_imag"} :
                alloc_floats_ok(name)

NextW == CallW \/ bluestein_entry \/ PadStep \/ PadExit \/ AllocOkW

SpecWidth == Init /\ [][NextW]_vars

\* ------------------------------------------------- notions of the claims
RECURSIVE IsPow2(_)
IsPow2(x) == x = 1 \/ (x > 1 /\ x % 2 = 0 /\ IsPow2(x \div 2))

RECURSIVE Log2(_)
Log2(x) == IF x <= 1 THEN 0 ELSE 1 + Log2(x \div 2)

\* the index whose Log2(count)-bit representation is the reversal of x's
RECURSIVE BitRev(_, _)
BitRev(x, count) ==
    IF count <= 1 THEN 0
    ELSE (x % 2) * (count \div 2) + BitRev(x \div 2, count \div 2)

Returned == calls > 0 /\ pc = "idle"
PadDone == calls > 0 /\ pc \notin {"bluestein", "pad"}
InEngine == pc \in {"ct_rev", "ct_bit", "ct_stage", "ct_block", "ct_bfly"}
EngineReturns == pc = "ct_stage" /\ ~(len <= ctN)
FirstPhaseDone == pc = "ct_stage" /\ lens = << >>
StageDone == pc = "ct_block" /\ ~(i < ctN)
Distinct == Store(ctReal) # Store(ctImag)

\* C1: between calls no auxiliary buffer is outstanding.
C1_NoLeak == pc = "idle" => outstanding = 0

\* C2: once an allocation has failed in a transform call, the caller's
\* arrays are as they were at the call, no entry of them has been written,
\* and the call does not return as if it had succeeded.
C2_FailureAborts ==
    (calls > 0 /\ n >= 1 /\ null # {}) =>
        /\ callerWrites = 0
        /\ mem["real"] = x0[1] /\ mem["imag"] = x0[2]
        /\ pc # "idle"

\* C3: a call with a length <= 0 allocates no auxiliary buffer and touches
\* no buffer entry.
C3_InvalidLength ==
    (calls > 0 /\ n <= 0) =>
        /\ requested = {}
        /\ \A name \in Aux : mem[name] = << >>

C5_TrigPerStage ==
    /\ InEngine => /\ trigCalls = 2 * Len(lens)
                   /\ (trigCalls > 0 => trigAt = "ct_stage")
    /\ EngineReturns => trigCalls = 2 * Log2(ctN)
    /\ pc = "ct_bfly" =>
         LET RECURSIVE Tw(_)
             Tw(q) == IF q = 0 THEN << 1, 0 >>
                      ELSE LET t == Tw(q - 1)
                           IN  << FSub(FMul(t[1], wr), FMul(t[2], wi)),
                                  FAdd(FMul(t[1], wi), FMul(t[2], wr)) >>
         IN  << ur, ui >> = Tw(j)

C5_Witness == EngineReturns /\ ctN = 8 /\ trigCalls = 6

\* C6: for n >= 1 the padded length is the smallest power of two >= 2n-1.
C6_PaddedLength ==
    (PadDone /\ n >= 1) =>
        /\ IsPow2(pow2)
        /\ pow2 >= 2 * n - 1
        /\ (pow2 = 1 \/ pow2 \div 2 < 2 * n - 1)

C6_Witness == PadDone /\ n = 3 /\ pow2 = 8

\* C7: the first phase of the engine performs exactly the swaps (x, rev x)
\* with x < rev x, each once, so that both arrays end as the bit-reversal
\* permutation of what they held; j stays within [0, n).
C7_BitReversal ==
    /\ pc \in {"ct_rev", "ct_bit"} => (0 <= j /\ j < ctN)
    /\ InEngine =>
         /\ \A s \in 1..Len(swaps) :
               /\ swaps[s][1] < swaps[s][2]
               /\ swaps[s][2] = BitRev(swaps[s][1], ctN)
         /\ \A s, t \in 1..Len(swaps) :
               s # t => {swaps[s][1], swaps[s][2]} \cap {swaps[t][1], swaps[t][2]} = {}
    /\ FirstPhaseDone =>
         /\ { swaps[s][1] : s \in 1..Len(swaps) }
              = { x \in 0..(ctN - 1) : x < BitRev(x, ctN) }
         /\ Distinct =>
              \A x \in 0..(ctN - 1) :
                 /\ Rd(mem, ctReal, BitRev(x, ctN)) = ctIn[1][x + 1]
                 /\ Rd(mem, ctImag, BitRev(x, ctN)) = ctIn[2][x + 1]

C7_Witness ==
    /\ FirstPhaseDone /\ Distinct /\ ctN = 8
    /\ swaps = << << 1, 4 >>, << 3, 6 >> >>
    /\ ctIn[1][2] # ctIn[1][5]
    /\ Rd(mem, ctReal, 4) = ctIn[1][2]

\* C8: after the filter fill loop the direct indices 0..n-1 and the mirror
\* indices M-k (0 < k < n) are disjoint and within [0, M), b[M-k] = b[k],
\* and every index from n to M-n still holds zero.
C8_FilterFill ==
    (pc = "fft_a" /\ n >= 1) =>
        /\ bDirect = 0..(n - 1)
        /\ bMirror = { pow2 - kk : kk \in 1..(n - 1) }
        /\ bDirect \cap bMirror = {}
        /\ (bDirect \cup bMirror) \subseteq 0..(pow2 - 1)
        /\ \A kk \in 1..(n - 1) :
              /\ Rd(mem, "b_real", pow2 - kk) = Rd(mem, "b_real", kk)
              /\ Rd(mem, "b_imag", pow2 - kk) = Rd(mem, "b_imag", kk)
        /\ \A x \in n..(pow2 - n) :
              Rd(mem, "b_real", x) = 0 /\ Rd(mem, "b_imag", x) = 0

C8_Witness ==
    /\ pc = "fft_a" /\ n = 3 /\ pow2 = 8 /\ null = {}
    /\ bMirror = {6, 7}
    /\ mem["b_real"][8] = mem["b_real"][2] /\ mem["b_real"][2] # 0
    /\ mem["b_real"][4] = 0

\* C9: the butterfly phase runs the stages len = 2, 4, ..., n; in a stage
\* every index of [0, n) is used, as u or v, by exactly one butterfly; u and
\* v are within [0, n); the twiddle is 1 at the start of every block.
C9_Butterflies ==
    /\ InEngine =>
         \A s \in 1..Len(lens) : lens[s] = 2 ^ s /\ lens[s] <= ctN
    /\ EngineReturns => Len(lens) = Log2(ctN)
    /\ pc \in {"ct_block", "ct_bfly"} =>
         \A x \in DOMAIN touch : touch[x] <= 1
    /\ StageDone => (DOMAIN touch = 0..(ctN - 1) /\ \A x \in DOMAIN touch : touch[x] = 1)
    /\ (pc = "ct_bfly" /\ j < CDiv(len, 2)) =>
         /\ 0 <= PairU(i, j) /\ PairU(i, j) < ctN
         /\ 0 <= PairV(i, j, len) /\ PairV(i, j, len) < ctN
         /\ PairV(i, j, len) = PairU(i, j) + len \div 2
    /\ (pc = "ct_bfly" /\ j = 0) => (ur = 1 /\ ui = 0)

C9_Witness ==
    /\ StageDone /\ ctN = 8 /\ len = 4
    /\ \A x \in 0..7 : touch[x] = 1

\* C10: with W-bit wrapping integers, for every 1 <= n <= 2^(W-1)-1 the
\* padded-length loop leaves pow2 positive with pow2 >= 2n-1, and the byte
\* count handed to malloc is pow2 * sizeof(float), not wrapped.
C10_NoWrap ==
    (calls > 0 /\ 1 <= n /\ n <= IntMax) =>
        /\ pc = "pad" => pow2 >= 1
        /\ PadDone => (pow2 >= 1 /\ pow2 >= 2 * n - 1)
        /\ (PadDone /\ pc # "alloc_a_real") => bytes = pow2 * SizeofFloat
====
